---- MODULE Spec2Model ----
(***************************************************************************)
(* Type-effectiveness engine of pokedict2 (backend/src/domain/valueobject): *)
(* the 18-type catalog, the matchup table, the Effectiveness grades with    *)
(* their quarter-unit weights, and the TypeSet queries built on them.       *)
(*                                                                          *)
(* The state is one constructed TypeSet plus the call a client currently    *)
(* has outstanding on the library: which function was called (op), with     *)
(* which argument (arg) and what it returned (result).  A call that panics  *)
(* returns the value Panic.                                                 *)
(*                                                                          *)
(* Three history variables observe the calls without influencing them:      *)
(* constructed is what TypeSet::new was given, first is the grade each      *)
(* watched attacking type got the first time a query answered it, and       *)
(* repeated tells that the outstanding call answered a watched attacking    *)
(* type that had been answered before.                                      *)
(***************************************************************************)
EXTENDS Integers, Sequences, FiniteSets, TLC

VARIABLES primary, secondary, op, arg, result, constructed, first, repeated

vars == <<primary, secondary, op, arg, result, constructed, first, repeated>>

(* ------------------------------ bounds --------------------------------- *)

\* longest attacking_types slice handed to defend_against_multiple
MaxLen == 3

\* the slices are drawn over the first MaxSliceTypes types of the catalog
MaxSliceTypes == 3

\* largest integer handed to Effectiveness::from_multiplier
MaxWeight == 70

\* the history watches the first MaxWatched types of the catalog
MaxWatched == 1

(* ---------------------------- PokemonType ------------------------------ *)

\* enum PokemonType, in declaration order
PokemonTypeVariants ==
    << "Fire", "Water", "Grass", "Electric", "Psychic", "Normal", "Ghost",
       "Dragon", "Ice", "Fighting", "Flying", "Bug", "Rock", "Ground",
       "Poison", "Steel", "Fairy", "Dark" >>

PokemonType == { PokemonTypeVariants[i] : i \in DOMAIN PokemonTypeVariants }

\* Option<PokemonType>::None
None == "None"

\* unwinding out of a call
Panic == "Panic"

all_types_dup ==
    << "Normal", "Fire", "Water", "Grass", "Electric", "Ice", "Fighting",
       "Poison", "Ground", "Flying", "Psychic", "Bug", "Rock", "Ghost",
       "Dragon", "Dark", "Steel", "Steel" >>

all_types ==
    << "Normal", "Fire", "Water", "Grass", "Electric", "Ice", "Fighting",
       "Poison", "Ground", "Flying", "Psychic", "Bug", "Rock", "Ghost",
       "Dragon", "Dark", "Steel", "Fairy" >>

(* ---------------------------- Effectiveness ---------------------------- *)

Effectiveness ==
    { "NoEffect", "Quarter", "Half", "Neutral", "Double", "Quadruple" }

\* self as u32: the #[repr(u32)] discriminant
get_multiplier_tocalc(self) ==
    CASE self = "NoEffect"  -> 0
      [] self = "Quarter"   -> 1
      [] self = "Half"      -> 2
      [] self = "Neutral"   -> 4
      [] self = "Double"    -> 8
      [] self = "Quadruple" -> 16

from_multiplier_lenient(multiplier) ==
    CASE multiplier = 0  -> "NoEffect"
      [] multiplier = 1  -> "Quarter"
      [] multiplier = 2  -> "Half"
      [] multiplier = 3  -> "Half"
      [] multiplier = 4  -> "Neutral"
      [] multiplier = 8  -> "Double"
      [] multiplier = 16 -> "Quadruple"
      [] OTHER           -> Panic

from_multiplier(multiplier) ==
    CASE multiplier = 0  -> "NoEffect"
      [] multiplier = 1  -> "Quarter"
      [] multiplier = 2  -> "Half"
      [] multiplier = 4  -> "Neutral"
      [] multiplier = 8  -> "Double"
      [] multiplier = 16 -> "Quadruple"
      [] OTHER           -> Panic

(* An f32 that is a dyadic rational mant * 2^exp, kept canonical: mant is    *)
(* odd, or mant = 0 and exp = 0.  Every value met here has a mantissa far    *)
(* below 2^24 and an exponent far above -126, so each operation is exact.    *)

RECURSIVE f32_canonical(_, _)
f32_canonical(mant, exp) ==
    IF mant = 0 THEN [mant |-> 0, exp |-> 0]
    ELSE IF mant % 2 = 0 THEN f32_canonical(mant \div 2, exp + 1)
    ELSE [mant |-> mant, exp |-> exp]

\* n as f32, exact for n < 2^24
u32_as_f32(n) == f32_canonical(n, 0)

\* the literal 4.0
f32_four == [mant |-> 1, exp |-> 2]

\* x / d for a divisor d that is a power of two: the exponent drops
f32_div(x, d) == f32_canonical(x.mant, x.exp - d.exp)

multiplier_nodiv(self) ==
    u32_as_f32(get_multiplier_tocalc(self))

\* self as u32 as f32 / 4.0
multiplier(self) ==
    f32_div(u32_as_f32(get_multiplier_tocalc(self)), f32_four)

(* --------------------------- matchup table ----------------------------- *)

\* the wildcard arm `_` of the match in effectiveness_against
Wildcard == "_"

\* the explicit arms of the match on (self, defender); Wildcard when none applies
match_arm(self, defender) ==
    CASE self = "Normal" /\ defender \in {"Rock", "Steel"} -> "Half"
      [] self = "Normal" /\ defender \in {"Ghost"} -> "NoEffect"

      [] self = "Fire" /\ defender \in {"Fire", "Water", "Rock", "Dragon"} -> "Half"
      [] self = "Fire" /\ defender \in {"Grass", "Ice", "Bug", "Steel"} -> "Double"

      [] self = "Water" /\ defender \in {"Water", "Grass", "Dragon"} -> "Half"
      [] self = "Water" /\ defender \in {"Fire", "Ground", "Rock"} -> "Double"

      [] self = "Grass" /\ defender \in {"Fire", "Grass", "Poison", "Flying", "Bug", "Dragon", "Steel"} -> "Half"
      [] self = "Grass" /\ defender \in {"Water", "Ground", "Rock"} -> "Double"

      [] self = "Electric" /\ defender \in {"Electric", "Grass", "Dragon"} -> "Half"
      [] self = "Electric" /\ defender \in {"Ground"} -> "NoEffect"
      [] self = "Electric" /\ defender \in {"Water", "Flying"} -> "Double"

      [] self = "Ice" /\ defender \in {"Fire", "Water", "Ice", "Steel"} -> "Half"
      [] self = "Ice" /\ defender \in {"Grass", "Ground", "Flying", "Dragon"} -> "Double"

      [] self = "Fighting" /\ defender \in {"Poison", "Flying", "Psychic", "Bug", "Fairy"} -> "Half"
      [] self = "Fighting" /\ defender \in {"Ghost"} -> "NoEffect"
      [] self = "Fighting" /\ defender \in {"Normal", "Ice", "Rock", "Dark", "Steel"} -> "Double"

      [] self = "Poison" /\ defender \in {"Poison", "Ground", "Rock", "Ghost"} -> "Half"
      [] self = "Poison" /\ defender \in {"Steel"} -> "NoEffect"
      [] self = "Poison" /\ defender \in {"Grass", "Fairy"} -> "Double"

      [] self = "Ground" /\ defender \in {"Grass", "Bug"} -> "Half"
      [] self = "Ground" /\ defender \in {"Flying"} -> "NoEffect"
      [] self = "Ground" /\ defender \in {"Fire", "Electric", "Poison", "Rock", "Steel"} -> "Double"

      [] self = "Flying" /\ defender \in {"Electric", "Rock", "Steel"} -> "Half"
      [] self = "Flying" /\ defender \in {"Grass", "Fighting", "Bug"} -> "Double"

      [] self = "Psychic" /\ defender \in {"Psychic", "Steel"} -> "Half"
      [] self = "Psychic" /\ defender \in {"Dark"} -> "NoEffect"
      [] self = "Psychic" /\ defender \in {"Fighting", "Poison"} -> "Double"

      [] self = "Bug" /\ defender \in {"Fire", "Fighting", "Poison", "Flying", "Ghost", "Steel", "Fairy"} -> "Half"
      [] self = "Bug" /\ defender \in {"Grass", "Psychic", "Dark"} -> "Double"

      [] self = "Rock" /\ defender \in {"Fighting", "Ground", "Steel"} -> "Half"
      [] self = "Rock" /\ defender \in {"Fire", "Ice", "Flying", "Bug"} -> "Double"

      [] self = "Ghost" /\ defender \in {"Dark"} -> "Half"
      [] self = "Ghost" /\ defender \in {"Normal"} -> "NoEffect"
      [] self = "Ghost" /\ defender \in {"Psychic", "Ghost"} -> "Double"

      [] self = "Dragon" /\ defender \in {"Steel"} -> "Half"
      [] self = "Dragon" /\ defender \in {"Fairy"} -> "NoEffect"
      [] self = "Dragon" /\ defender \in {"Dragon"} -> "Double"

      [] self = "Dark" /\ defender \in {"Fighting", "Dark", "Fairy"} -> "Half"
      [] self = "Dark" /\ defender \in {"Psychic", "Ghost"} -> "Double"

      [] self = "Steel" /\ defender \in {"Fire", "Water", "Electric", "Steel"} -> "Half"
      [] self = "Steel" /\ defender \in {"Ice", "Rock", "Fairy"} -> "Double"

      [] self = "Fairy" /\ defender \in {"Fire", "Poison", "Steel"} -> "Half"
      [] self = "Fairy" /\ defender \in {"Fighting", "Dragon", "Dark"} -> "Double"

      [] OTHER -> Wildcard

effectiveness_against_swapped(self, defender) ==
    IF match_arm(defender, self) = Wildcard
        THEN "Neutral"
        ELSE match_arm(defender, self)

effectiveness_against_default_noeffect(self, defender) ==
    IF match_arm(self, defender) = Wildcard
        THEN "NoEffect"
        ELSE match_arm(self, defender)

\* attacker self against defender: the matching explicit arm, else Neutral
effectiveness_against(self, defender) ==
    IF match_arm(self, defender) = Wildcard
        THEN "Neutral"
        ELSE match_arm(self, defender)

(* ------------------------------ TypeSet -------------------------------- *)

\* TypeSet::new
new(p, s) == [primary |-> p, secondary |-> s]

combined_multiplier_nodiv(primary_effectiveness, secondary_effectiveness) ==
    get_multiplier_tocalc(primary_effectiveness)
        * get_multiplier_tocalc(secondary_effectiveness)

combined_multiplier_sum(primary_effectiveness, secondary_effectiveness) ==
    (get_multiplier_tocalc(primary_effectiveness)
        + get_multiplier_tocalc(secondary_effectiveness)) \div 2

\* u32 arithmetic: the product is at most 16 * 16 = 256, so it never wraps
combined_multiplier(primary_effectiveness, secondary_effectiveness) ==
    (get_multiplier_tocalc(primary_effectiveness)
        * get_multiplier_tocalc(secondary_effectiveness)) \div 4

defend_against_primary_only(self, attacking_type) ==
    effectiveness_against(attacking_type, self.primary)

defend_against(self, attacking_type) ==
    LET primary_effectiveness ==
            effectiveness_against(attacking_type, self.primary)
    IN  IF self.secondary # None
            THEN LET secondary_effectiveness ==
                         effectiveness_against(attacking_type, self.secondary)
                 IN  from_multiplier(
                         combined_multiplier(primary_effectiveness,
                                             secondary_effectiveness))
            ELSE primary_effectiveness

\* TypeSet::primary
TypeSet_primary(self) == self.primary

\* TypeSet::secondary
TypeSet_secondary(self) == self.secondary

\* index of the first element whose closure panicked, 0 when none did
first_panic(pairs) ==
    IF \E i \in DOMAIN pairs : pairs[i][2] = Panic
        THEN CHOOSE i \in DOMAIN pairs :
                 /\ pairs[i][2] = Panic
                 /\ \A j \in 1..(i - 1) : pairs[j][2] # Panic
        ELSE 0

\* iter().map(f).collect(): elements are computed in order and a panic in one
\* unwinds out of the call; the elements after it are never computed
map_collect(pairs) ==
    IF first_panic(pairs) = 0
        THEN pairs
        ELSE SubSeq(pairs, 1, first_panic(pairs))

defend_against_multiple_reversed(self, attacking_types) ==
    map_collect([ i \in 1..Len(attacking_types) |->
        << attacking_types[Len(attacking_types) + 1 - i],
           defend_against(self, attacking_types[Len(attacking_types) + 1 - i]) >> ])

defend_against_multiple(self, attacking_types) ==
    map_collect([ i \in 1..Len(attacking_types) |->
        << attacking_types[i], defend_against(self, attacking_types[i]) >> ])

defend_against_all_declaration_order(self) ==
    map_collect([ i \in 1..Len(PokemonTypeVariants) |->
        << PokemonTypeVariants[i], defend_against(self, PokemonTypeVariants[i]) >> ])

defend_against_all(self) ==
    map_collect([ i \in 1..Len(all_types) |->
        << all_types[i], defend_against(self, all_types[i]) >> ])

(* ------------------------------- state --------------------------------- *)

\* the TypeSet under test
self == new(primary, secondary)

\* attacking types a slice may hold
SliceTypes == { all_types[i] : i \in 1..MaxSliceTypes }

\* slices of at most MaxLen attacking types, repetitions included
Slices == UNION { [1..n -> SliceTypes] : n \in 0..MaxLen }

Idle == "idle"

\* attacking types whose first answer the history keeps
Watched == { all_types[i] : i \in 1..MaxWatched }

\* the history of a caller that watches nothing
NoHistory == [ a \in {} |-> None ]

\* does the sequence of (type, grade) answers hold one for attacking type a
answers_type(answers, a) == \E i \in DOMAIN answers : answers[i][1] = a

\* the grade of the first answer for attacking type a
first_answer(answers, a) ==
    answers[CHOOSE i \in DOMAIN answers :
                /\ answers[i][1] = a
                /\ \A j \in 1..(i - 1) : answers[j][1] # a][2]

\* the history after a query returned answers
record(memo, answers) ==
    [ a \in DOMAIN memo |->
        IF memo[a] = None /\ answers_type(answers, a)
            THEN first_answer(answers, a)
            ELSE memo[a] ]

\* the query answered a watched type that had an answer already
asked_again(memo, answers) ==
    \E a \in DOMAIN memo : memo[a] # None /\ answers_type(answers, a)

TypeOK ==
    /\ primary \in PokemonType
    /\ secondary \in PokemonType \cup {None}
    /\ op \in { Idle, "defend_against", "defend_against_multiple",
                "defend_against_all", "effectiveness_against",
                "from_multiplier", "all_types", "combined_multiplier",
                "multiplier", "primary", "secondary" }
    /\ constructed \in [ primary : PokemonType,
                         secondary : PokemonType \cup {None} ]
    /\ DOMAIN first \subseteq PokemonType
    /\ \A a \in DOMAIN first : first[a] \in Effectiveness \cup {None, Panic}
    /\ repeated \in BOOLEAN

\* any TypeSet the constructor accepts: secondary absent, distinct or duplicate
Init ==
    /\ primary \in PokemonType
    /\ secondary \in PokemonType \cup {None}
    /\ op = Idle
    /\ arg = << >>
    /\ result = << >>
    /\ constructed = new(primary, secondary)
    /\ first = NoHistory
    /\ repeated = FALSE

DefendAgainst_take ==
    \E attacking_type \in PokemonType :
        /\ op = Idle
        /\ op' = "defend_against"
        /\ arg' = attacking_type
        /\ result' = defend_against(self, attacking_type)
        /\ first' = record(first, << <<attacking_type, result'>> >>)
        /\ repeated' = asked_again(first, << <<attacking_type, result'>> >>)
        /\ secondary' = None
        /\ UNCHANGED <<primary, constructed>>

DefendAgainst ==
    \E attacking_type \in PokemonType :
        /\ op = Idle
        /\ op' = "defend_against"
        /\ arg' = attacking_type
        /\ result' = defend_against(self, attacking_type)
        /\ first' = record(first, << <<attacking_type, result'>> >>)
        /\ repeated' = asked_again(first, << <<attacking_type, result'>> >>)
        /\ UNCHANGED <<primary, secondary, constructed>>

DefendAgainstMultiple ==
    \E attacking_types \in Slices :
        /\ op = Idle
        /\ op' = "defend_against_multiple"
        /\ arg' = attacking_types
        /\ result' = defend_against_multiple(self, attacking_types)
        /\ first' = record(first, result')
        /\ repeated' = asked_again(first, result')
        /\ UNCHANGED <<primary, secondary, constructed>>

DefendAgainstAll ==
    /\ op = Idle
    /\ op' = "defend_against_all"
    /\ arg' = << >>
    /\ result' = defend_against_all(self)
    /\ first' = record(first, result')
    /\ repeated' = asked_again(first, result')
    /\ UNCHANGED <<primary, secondary, constructed>>

EffectivenessAgainst ==
    \E attacker \in PokemonType, defender \in PokemonType :
        /\ op = Idle
        /\ op' = "effectiveness_against"
        /\ arg' = <<attacker, defender>>
        /\ result' = effectiveness_against(attacker, defender)
        /\ UNCHANGED <<primary, secondary, constructed, first, repeated>>

FromMultiplier ==
    \E weight \in 0..MaxWeight :
        /\ op = Idle
        /\ op' = "from_multiplier"
        /\ arg' = weight
        /\ result' = from_multiplier(weight)
        /\ UNCHANGED <<primary, secondary, constructed, first, repeated>>

AllTypes ==
    /\ op = Idle
    /\ op' = "all_types"
    /\ arg' = << >>
    /\ result' = all_types
    /\ UNCHANGED <<primary, secondary, constructed, first, repeated>>

\* the combination step of defend_against on any two grades
CombinedMultiplier ==
    \E e1 \in Effectiveness, e2 \in Effectiveness :
        /\ op = Idle
        /\ op' = "combined_multiplier"
        /\ arg' = <<e1, e2>>
        /\ result' = [ weight |-> combined_multiplier(e1, e2),
                       grade  |-> from_multiplier(combined_multiplier(e1, e2)) ]
        /\ UNCHANGED <<primary, secondary, constructed, first, repeated>>

Multiplier ==
    \E e \in Effectiveness :
        /\ op = Idle
        /\ op' = "multiplier"
        /\ arg' = e
        /\ result' = multiplier(e)
        /\ UNCHANGED <<primary, secondary, constructed, first, repeated>>

Primary ==
    /\ op = Idle
    /\ op' = "primary"
    /\ arg' = << >>
    /\ result' = TypeSet_primary(self)
    /\ UNCHANGED <<primary, secondary, constructed, first, repeated>>

Secondary ==
    /\ op = Idle
    /\ op' = "secondary"
    /\ arg' = << >>
    /\ result' = TypeSet_secondary(self)
    /\ UNCHANGED <<primary, secondary, constructed, first, repeated>>

\* the call returns and the caller lets go of the value
Return ==
    /\ op # Idle
    /\ op' = Idle
    /\ arg' = << >>
    /\ result' = << >>
    /\ repeated' = FALSE
    /\ UNCHANGED <<primary, secondary, constructed, first>>

Next ==
    \/ DefendAgainst
    \/ DefendAgainstMultiple
    \/ DefendAgainstAll
    \/ EffectivenessAgainst
    \/ FromMultiplier
    \/ AllTypes
    \/ CombinedMultiplier
    \/ Multiplier
    \/ Primary
    \/ Secondary
    \/ Return

Spec == Init /\ [][Next]_vars

\* a caller that keeps the history of the watched attacking types and uses
\* the TypeSet only: its accessors and its three queries, in any order
InitHistory ==
    /\ primary \in PokemonType
    /\ secondary \in PokemonType \cup {None}
    /\ op = Idle
    /\ arg = << >>
    /\ result = << >>
    /\ constructed = new(primary, secondary)
    /\ first = [ a \in Watched |-> None ]
    /\ repeated = FALSE

NextHistory ==
    \/ DefendAgainst
    \/ DefendAgainstMultiple
    \/ DefendAgainstAll
    \/ Primary
    \/ Secondary
    \/ Return

SpecHistory == InitHistory /\ [][NextHistory]_vars

(* ------------------------------ claims --------------------------------- *)

\* the six weights the specification calls valid
SixWeights == {0, 1, 2, 4, 8, 16}

\* C1: defend_against never panics: for every attacker and every TypeSet
\* (secondary absent, distinct, or equal to primary) it returns one of the six
\* grades, whose weight is one of 0, 1, 2, 4, 8, 16.
C1_DefendAgainstClosed ==
    op = "defend_against" =>
        /\ result # Panic
        /\ result \in Effectiveness
        /\ get_multiplier_tocalc(result) \in SixWeights

\* a duplicate pair (Ghost, Some(Ghost)) attacked by Ghost: Double x Double
C1_Witness ==
    /\ op = "defend_against"
    /\ secondary = primary
    /\ arg = primary
    /\ result = "Quadruple"

\* C2: absorption: with a secondary type, if the attacker has NoEffect on the
\* primary or on the secondary type, defend_against returns NoEffect.
C2_Absorption ==
    (/\ op = "defend_against"
     /\ secondary # None
     /\ \/ effectiveness_against(arg, primary) = "NoEffect"
        \/ effectiveness_against(arg, secondary) = "NoEffect")
    => result = "NoEffect"

\* Rock/Flying attacked by Ground: Rock is weak to Ground, Flying is immune
C2_Witness ==
    /\ op = "defend_against"
    /\ primary = "Rock"
    /\ secondary = "Flying"
    /\ arg = "Ground"
    /\ effectiveness_against(arg, primary) = "Double"
    /\ result = "NoEffect"

\* C3: without a secondary type defend_against is the table lookup on the
\* primary; with one, its weight is (w1 * w2) / 4 and that division loses
\* nothing: 4 * w = w1 * w2, the product of the two multipliers in quarters.
C3_Composition ==
    op = "defend_against" =>
        LET w1 == get_multiplier_tocalc(effectiveness_against(arg, primary))
        IN  IF secondary = None
                THEN result = effectiveness_against(arg, primary)
                ELSE LET w2 == get_multiplier_tocalc(
                                   effectiveness_against(arg, secondary))
                     IN  /\ result \in Effectiveness
                         /\ get_multiplier_tocalc(result) = (w1 * w2) \div 4
                         /\ 4 * get_multiplier_tocalc(result) = w1 * w2

\* Half x Half = Quarter on a dual type
C3_Witness ==
    /\ op = "defend_against"
    /\ secondary # None
    /\ effectiveness_against(arg, primary) = "Half"
    /\ effectiveness_against(arg, secondary) = "Half"
    /\ result = "Quarter"

\* C4 as stated: the combination (w1 * w2) / 4 of any two of the six weights
\* is again one of the six weights.
C4_ClosedOverSixWeights ==
    op = "combined_multiplier" => result.weight \in SixWeights

\* the three pairs of grades whose product exceeds 64
C4_Excluded ==
    { <<"Double", "Quadruple">>, <<"Quadruple", "Double">>,
      <<"Quadruple", "Quadruple">> }

\* C4 amended: the combination (w1 * w2) / 4 of two of the six weights is one
\* of the six weights for every pair except (8,16), (16,8) and (16,16), which
\* give 32, 32 and 64; and these three make from_multiplier panic.
C4_ClosedExceptLargePairs ==
    op = "combined_multiplier" =>
        /\ arg \notin C4_Excluded =>
              /\ result.weight \in SixWeights
              /\ result.grade \in Effectiveness
        /\ arg \in C4_Excluded =>
              /\ result.weight \in {32, 64}
              /\ result.grade = Panic

\* Quarter x Quadruple = Neutral, a pair no two table lookups produce
C4_Witness ==
    /\ op = "combined_multiplier"
    /\ arg = <<"Quarter", "Quadruple">>
    /\ result.weight = 4
    /\ result.grade = "Neutral"

\* the catalog order the specification documents
DocumentedOrder ==
    << "Normal", "Fire", "Water", "Grass", "Electric", "Ice", "Fighting",
       "Poison", "Ground", "Flying", "Psychic", "Bug", "Rock", "Ghost",
       "Dragon", "Dark", "Steel", "Fairy" >>

\* C5: defend_against_all returns exactly 18 entries, entry i pairing the
\* i-th type of the documented catalog order with defend_against of that
\* type; no type is repeated and none is missing.
C5_DefendAgainstAll ==
    op = "defend_against_all" =>
        /\ Len(result) = 18
        /\ \A i \in 1..18 :
              /\ result[i][1] = DocumentedOrder[i]
              /\ result[i][2] \in Effectiveness
              /\ result[i][2] = defend_against(self, DocumentedOrder[i])
        /\ \A i, j \in 1..18 : i # j => result[i][1] # result[j][1]
        /\ { result[i][1] : i \in 1..18 } = PokemonType

\* Water/Flying: Electric (5th) is Quadruple and Ground (9th) is NoEffect
C5_Witness ==
    /\ op = "defend_against_all"
    /\ primary = "Water"
    /\ secondary = "Flying"
    /\ Len(result) = 18
    /\ result[5] = <<"Electric", "Quadruple">>
    /\ result[9] = <<"Ground", "NoEffect">>

\* C6: defend_against_multiple returns a sequence as long as its input whose
\* entry i is (input[i], defend_against(input[i])): order and multiplicity
\* are kept, repeated attackers included, the empty input gives the empty
\* output.
C6_DefendAgainstMultiple ==
    op = "defend_against_multiple" =>
        /\ Len(result) = Len(arg)
        /\ \A i \in 1..Len(arg) :
              /\ result[i][1] = arg[i]
              /\ result[i][2] \in Effectiveness
              /\ result[i][2] = defend_against(self, arg[i])

\* Fire attacked by [Water, Fire, Water]: a repeated attacker, kept twice
C6_Witness ==
    /\ op = "defend_against_multiple"
    /\ primary = "Fire"
    /\ secondary = None
    /\ arg = <<"Water", "Fire", "Water">>
    /\ result = << <<"Water", "Double">>, <<"Fire", "Half">>,
                   <<"Water", "Double">> >>

\* C7: from_multiplier panics on every integer outside 0, 1, 2, 4, 8, 16 and
\* on each of those six returns the grade whose weight is that integer.
C7_FromMultiplier ==
    op = "from_multiplier" =>
        IF arg \in SixWeights
            THEN /\ result \in Effectiveness
                 /\ get_multiplier_tocalc(result) = arg
            ELSE result = Panic

\* 3 lies between two valid weights and is rejected
C7_Witness ==
    /\ op = "from_multiplier"
    /\ arg = 3
    /\ result = Panic

\* C8: effectiveness_against is total over the 18 x 18 = 324 ordered pairs:
\* it never fails, a pair without an explicit arm gives Neutral, and the
\* grade is NoEffect, Half, Neutral or Double, never Quarter or Quadruple.
C8_TableTotal ==
    /\ Cardinality(PokemonType \X PokemonType) = 324
    /\ op = "effectiveness_against" =>
          /\ arg \in PokemonType \X PokemonType
          /\ result \in {"NoEffect", "Half", "Neutral", "Double"}
          /\ match_arm(arg[1], arg[2]) = Wildcard => result = "Neutral"

\* Normal against Normal has no explicit arm
C8_Witness ==
    /\ op = "effectiveness_against"
    /\ arg = <<"Normal", "Normal">>
    /\ match_arm(arg[1], arg[2]) = Wildcard
    /\ result = "Neutral"

\* the eight immunities the specification lists, as (attacker, defender)
EightImmunities ==
    { <<"Electric", "Ground">>, <<"Ghost", "Normal">>, <<"Normal", "Ghost">>,
      <<"Ground", "Flying">>, <<"Poison", "Steel">>, <<"Fighting", "Ghost">>,
      <<"Psychic", "Dark">>, <<"Dragon", "Fairy">> }

\* C9: effectiveness_against returns NoEffect exactly on the eight listed
\* (attacker, defender) pairs and on no other of the 324 pairs.
C9_Immunities ==
    op = "effectiveness_against" =>
        (result = "NoEffect" <=> arg \in EightImmunities)

\* Dragon against Fairy
C9_Witness ==
    /\ op = "effectiveness_against"
    /\ arg = <<"Dragon", "Fairy">>
    /\ result = "NoEffect"

\* C10: all_types returns 18 pairwise distinct types covering every variant
\* of the enum, in the documented order, the same on every call.
C10_AllTypes ==
    op = "all_types" =>
        /\ Len(result) = 18
        /\ \A i, j \in 1..Len(result) : i # j => result[i] # result[j]
        /\ { result[i] : i \in 1..Len(result) } = PokemonType
        /\ Cardinality(PokemonType) = 18
        /\ result = DocumentedOrder

\* a call of all_types has returned, first Normal and last Fairy
C10_Witness ==
    /\ op = "all_types"
    /\ Len(result) = 18
    /\ result[1] = "Normal"
    /\ result[18] = "Fairy"

\* the self-matchups the standard chart documents
DocumentedSelfMatchup(t) ==
    CASE t \in {"Fire", "Water", "Grass", "Electric", "Ice", "Poison",
                "Psychic", "Dark", "Steel"} -> "Half"
      [] t \in {"Ghost", "Dragon"} -> "Double"
      [] t \in {"Normal", "Fighting", "Ground", "Flying", "Bug", "Rock",
                "Fairy"} -> "Neutral"

\* C11: a type attacking itself gives the documented self-matchup: Half for
\* Fire, Water, Grass, Electric, Ice, Poison, Psychic, Dark, Steel; Double for
\* Ghost and Dragon; Neutral for the other seven; never NoEffect.
C11_SelfMatchup ==
    (op = "effectiveness_against" /\ arg[1] = arg[2]) =>
        /\ result = DocumentedSelfMatchup(arg[1])
        /\ result # "NoEffect"

\* Dragon against Dragon is Double
C11_Witness ==
    /\ op = "effectiveness_against"
    /\ arg = <<"Dragon", "Dragon">>
    /\ result = "Double"

\* C14 as stated: of the 36 pairs of grades, only Quadruple x Quadruple
\* combines to a weight outside 0, 1, 2, 4, 8, 16.
C14_OnlyQuadrupleSquared ==
    op = "combined_multiplier" =>
        (result.weight \notin SixWeights
            <=> arg = <<"Quadruple", "Quadruple">>)

\* C14 amended: the pairs of weights whose combination (w1 * w2) / 4 falls
\* outside 0, 1, 2, 4, 8, 16 are exactly (8,16) and (16,8), giving 32, and
\* (16,16), giving 64; from_multiplier panics on exactly these.
C14_ExactlyThreeInvalidPairs ==
    op = "combined_multiplier" =>
        LET w1 == get_multiplier_tocalc(arg[1])
            w2 == get_multiplier_tocalc(arg[2])
            large == <<w1, w2>> \in {<<8, 16>>, <<16, 8>>, <<16, 16>>}
        IN  /\ result.weight \notin SixWeights <=> large
            /\ result.grade = Panic <=> large
            /\ <<w1, w2>> = <<16, 16>> => result.weight = 64
            /\ <<w1, w2>> \in {<<8, 16>>, <<16, 8>>} => result.weight = 32

\* Double x Quadruple gives 32, which from_multiplier rejects
C14_Witness ==
    /\ op = "combined_multiplier"
    /\ arg = <<"Double", "Quadruple">>
    /\ result.weight = 32
    /\ result.grade = Panic

C16_OrderIndependent ==
    (op = "defend_against" /\ secondary # None) =>
        /\ result = defend_against(new(secondary, primary), arg)
        /\ effectiveness_against(arg, secondary) = "Neutral" =>
               result = defend_against(new(primary, None), arg)

\* Double on the primary, Neutral on the secondary: the result is Double
C16_Witness ==
    /\ op = "defend_against"
    /\ secondary # None
    /\ secondary # primary
    /\ effectiveness_against(arg, primary) = "Double"
    /\ effectiveness_against(arg, secondary) = "Neutral"
    /\ result = "Double"

\* the multipliers the specification documents, as mant * 2^exp:
\* 0.0, 0.25, 0.5, 1.0, 2.0, 4.0
DocumentedMultiplier(e) ==
    CASE e = "NoEffect"  -> [mant |-> 0, exp |-> 0]
      [] e = "Quarter"   -> [mant |-> 1, exp |-> -2]
      [] e = "Half"      -> [mant |-> 1, exp |-> -1]
      [] e = "Neutral"   -> [mant |-> 1, exp |-> 0]
      [] e = "Double"    -> [mant |-> 1, exp |-> 1]
      [] e = "Quadruple" -> [mant |-> 1, exp |-> 2]

\* C12: multiplier() is weight / 4: 0.0, 0.25, 0.5, 1.0, 2.0, 4.0 for the six
\* grades; four times the multiplier is the integer weight; and no other
\* grade has the same multiplier.
C12_Multiplier ==
    op = "multiplier" =>
        /\ result = DocumentedMultiplier(arg)
        /\ result.exp + 2 >= 0
        /\ result.mant * 2 ^ (result.exp + 2) = get_multiplier_tocalc(arg)
        /\ \A e \in Effectiveness \ {arg} : multiplier(e) # result

\* Quarter.multiplier() is 0.25 = 1 * 2^(-2)
C12_Witness ==
    /\ op = "multiplier"
    /\ arg = "Quarter"
    /\ result = [mant |-> 1, exp |-> -2]

\* C13: a TypeSet is immutable and its queries are pure: after any sequence
\* of defend_against, defend_against_multiple and defend_against_all calls
\* the fields, primary() and secondary() are what TypeSet::new was given, and
\* every answer for an attacking type is the grade it got the first time.
C13_ImmutableAndPure ==
    /\ new(primary, secondary) = constructed
    /\ op = "primary" => result = constructed.primary
    /\ op = "secondary" => result = constructed.secondary
    /\ (op = "defend_against" /\ arg \in DOMAIN first) => result = first[arg]
    /\ op \in {"defend_against_multiple", "defend_against_all"} =>
          \A i \in 1..Len(result) :
              result[i][1] \in DOMAIN first =>
                  result[i][2] = first[result[i][1]]

\* a defend_against call repeats a watched attacking type answered before
C13_Witness ==
    /\ op = "defend_against"
    /\ repeated
    /\ arg \in DOMAIN first
    /\ result = first[arg]
    /\ secondary # None
    /\ new(primary, secondary) = constructed

====
